---- MODULE Spec2Model ----
(***************************************************************************)
(* Robust-Data-Processor: the ingest API (src/api/handler.py) and the SQS  *)
(* worker (src/worker/handler.py) as state machines.                       *)
(*                                                                         *)
(* Python values are tagged records:                                       *)
(*   None            [ty |-> "none"]                                       *)
(*   identifier str  [ty |-> "str",  s |-> "acme"]                         *)
(*   text str        [ty |-> "text", c |-> <<"h","i">>]  (characters)      *)
(*   uuid4 str       [ty |-> "uuid", n |-> k]   (the k-th value drawn)     *)
(*   JSON document   [ty |-> "json", doc |-> v] (the str json.dumps(v))    *)
(*   int             [ty |-> "int",  n |-> 7]                              *)
(*   list            [ty |-> "list"]                                       *)
(*   dict            [ty |-> "dict", d |-> [field |-> value]]              *)
(***************************************************************************)
EXTENDS Integers, Sequences, FiniteSets, TLC

VARIABLES
    \* ---- API Lambda (src/api/handler.py)
    SQS_QUEUE_URL,   \* os.environ['SQS_QUEUE_URL'] of the API container
    QUEUE_URL,       \* module global, lazily cached by get_queue_url
    queue,           \* messages accepted by sqs.send_message, in order
    uuidCount,       \* number of uuid.uuid4() values drawn so far
    now,             \* the clock read by datetime.utcnow()
    apiCalls,        \* number of API invocations so far
    apiEvent,        \* the event of the last API invocation
    apiNormalized,   \* what validate_and_normalize did in that invocation
    apiPublish,      \* whether publish_to_sqs was called in it, and what it returned
    apiSends,        \* number of sqs.send_message calls made by it
    apiResponse,     \* what the API lambda_handler returned (or raised)
    generated,       \* the log_ids validate_and_normalize has generated, in order
    \* ---- worker Lambda (src/worker/handler.py)
    DYNAMODB_TABLE_NAME,  \* os.environ['DYNAMODB_TABLE_NAME'] of the worker containers
    store,           \* the items of the DynamoDB table
    TABLE_NAME,      \* per worker: module global, lazily cached by get_dynamodb_table
    table,           \* per worker: module global, the Table resource or None
    wPc,             \* per worker: "idle", "running" (in the for loop), "returned"
    wEvent,          \* per worker: the event of its invocation
    wContext,        \* per worker: the context of its invocation
    wPos,            \* per worker: number of records the loop has finished
    wReadAt,         \* per worker: the datetime.utcnow() read for the record in progress
    batch_item_failures,  \* per worker: the local list of lambda_handler
    wOutcome,        \* per worker: how each finished record ended, in batch order
    wResponse,       \* per worker: what lambda_handler returned
    delivered,       \* number of records delivered to the workers so far
    writes,          \* the items put_item has stored, in order
    \* ---- the queue between them, as the event source mapping sees it
    sqs              \* the messages of the queue: body, receive count, visibility

apiVars == <<SQS_QUEUE_URL, QUEUE_URL, queue, uuidCount, apiCalls, apiEvent,
             apiNormalized, apiPublish, apiSends, apiResponse, generated>>

workerVars == <<DYNAMODB_TABLE_NAME, store, TABLE_NAME, table, wPc, wEvent, wContext,
                wPos, wReadAt, batch_item_failures, wOutcome, wResponse, delivered, writes>>

vars == <<apiVars, workerVars, now, sqs>>

-----------------------------------------------------------------------------
(* Bounds *)

MaxRequests == 2
MaxTime == 1
MaxBatch == 3
MaxDelivered == 3
MaxTokens == 4
MaxMessages == 2
MaxReceives == 2

-----------------------------------------------------------------------------
(* Python values *)

None == [ty |-> "none"]
Str(s) == [ty |-> "str", s |-> s]
Text(c) == [ty |-> "text", c |-> c]
Uuid(k) == [ty |-> "uuid", n |-> k]
Num(k) == [ty |-> "int", n |-> k]
List == [ty |-> "list"]
Dict(d) == [ty |-> "dict", d |-> d]
JsonDoc(v) == [ty |-> "json", doc |-> v]

IsStr(v) == v.ty \in {"str", "text", "uuid", "json"}

\* Python truthiness: `not v` is ~Truthy(v)
Truthy(v) ==
    CASE v.ty = "none" -> FALSE
      [] v.ty = "str"  -> v.s # ""
      [] v.ty = "text" -> v.c # <<>>
      [] v.ty = "int"  -> v.n # 0
      [] v.ty = "list" -> TRUE     \* the only list of the model is [1]
      [] OTHER         -> TRUE     \* a uuid, a JSON document, a dict with keys

Whitespace == {" ", "\t", "\n"}

RECURSIVE lstrip(_)
lstrip(c) ==
    IF c # <<>> /\ Head(c) \in Whitespace THEN lstrip(Tail(c)) ELSE c

RECURSIVE rstrip(_)
rstrip(c) ==
    IF c # <<>> /\ c[Len(c)] \in Whitespace THEN rstrip(SubSeq(c, 1, Len(c) - 1)) ELSE c

\* str.strip() on the characters of a text
strip(c) == rstrip(lstrip(c))

\* body.strip() == '' for a str value
StripsToEmpty(v) ==
    CASE v.ty = "text" -> strip(v.c) = <<>>
      [] v.ty = "str"  -> v.s = ""
      [] OTHER         -> FALSE    \* a uuid or a JSON document has visible characters

Digits == {"0", "1", "2", "3", "4", "5", "6", "7", "8", "9"}

AllDigits(c) == c # <<>> /\ \A i \in 1..Len(c) : c[i] \in Digits

DigitValue(ch) ==
    CASE ch = "0" -> 0 [] ch = "1" -> 1 [] ch = "2" -> 2 [] ch = "3" -> 3
      [] ch = "4" -> 4 [] ch = "5" -> 5 [] ch = "6" -> 6 [] ch = "7" -> 7
      [] ch = "8" -> 8 [] ch = "9" -> 9

RECURSIVE DecimalValue(_)
DecimalValue(c) ==
    IF c = <<>> THEN 0
    ELSE 10 * DecimalValue(SubSeq(c, 1, Len(c) - 1)) + DigitValue(c[Len(c)])

\* json.loads(s): [ok |-> TRUE, val |-> v], or [ok |-> FALSE] for JSONDecodeError.
\* A JSON document decodes to its value; a text decodes by its characters
\* (surrounding whitespace ignored): digits to an int, null to None, "[" digits "]"
\* to a list, a quoted run without quotes to a str; anything else is invalid JSON.
json_loads(s) ==
    IF s.ty = "json" THEN [ok |-> TRUE, val |-> s.doc]
    ELSE IF s.ty # "text" THEN [ok |-> FALSE]
    ELSE LET c == strip(s.c) IN
         IF AllDigits(c) /\ (Len(c) = 1 \/ c[1] # "0")
             THEN [ok |-> TRUE, val |-> Num(DecimalValue(c))]
         ELSE IF c = <<"n", "u", "l", "l">>
             THEN [ok |-> TRUE, val |-> None]
         ELSE IF Len(c) >= 3 /\ c[1] = "[" /\ c[Len(c)] = "]"
                 /\ AllDigits(SubSeq(c, 2, Len(c) - 1))
             THEN [ok |-> TRUE, val |-> List]
         ELSE IF Len(c) >= 2 /\ c[1] = "\"" /\ c[Len(c)] = "\""
                 /\ \A i \in 2..(Len(c) - 1) : c[i] \notin {"\"", "\\"}
             THEN [ok |-> TRUE, val |-> Text(SubSeq(c, 2, Len(c) - 1))]
         ELSE [ok |-> FALSE]

\* json.dumps(v): the JSON document of v
json_dumps(v) == JsonDoc(v)

\* d.get(k) on a dict value
Get(v, k) == IF k \in DOMAIN v.d THEN v.d[k] ELSE None

-----------------------------------------------------------------------------
(* Regular expressions of redact_phone_numbers, on the characters of a text *)

Letters ==
    {"a", "b", "c", "d", "e", "f", "g", "h", "i", "j", "k", "l", "m", "n", "o", "p", "q",
     "r", "s", "t", "u", "v", "w", "x", "y", "z", "A", "B", "C", "D", "E", "F", "G", "H",
     "I", "J", "K", "L", "M", "N", "O", "P", "Q", "R", "S", "T", "U", "V", "W", "X", "Y",
     "Z"}

\* \w
WordChars == Letters \cup Digits \cup {"_"}

\* \s
SpaceChars == {" ", "\t", "\n", "\r", "\f"}

\* \d{n} matches at position i of c
DigitsAt(c, i, n) == i + n - 1 <= Len(c) /\ \A k \in i..(i + n - 1) : c[k] \in Digits

\* one character of the class cls at position i
ClassAt(c, i, cls) == i <= Len(c) /\ c[i] \in cls

\* \b holds before position i (i = Len(c) + 1: at the end)
WordBoundary(c, i) ==
    (i > 1 /\ c[i - 1] \in WordChars) # (i <= Len(c) /\ c[i] \in WordChars)

\* Length of the match of pattern p at position i, 0 when it does not match there.
\* An optional separator is followed by \d, which no separator matches, so the
\* greedy choice is the only one and no backtracking changes the result.
\*   1:  \(\d{3}\)\s?\d{3}[-.]?\d{4}
\*   2:  \b\d{3}[-.\s]\d{3}[-.\s]\d{4}\b
\*   3:  \b\d{3}[-.]?\d{4}\b
MatchLen(p, c, i) ==
    CASE p = 1 ->
           IF ClassAt(c, i, {"("}) /\ DigitsAt(c, i + 1, 3) /\ ClassAt(c, i + 4, {")"})
           THEN LET a == IF ClassAt(c, i + 5, SpaceChars) THEN i + 6 ELSE i + 5
                    b == IF ClassAt(c, a + 3, {"-", "."}) THEN a + 4 ELSE a + 3
                IN  IF DigitsAt(c, a, 3) /\ DigitsAt(c, b, 4) THEN b + 4 - i ELSE 0
           ELSE 0
      [] p = 2 ->
           IF /\ WordBoundary(c, i)
              /\ DigitsAt(c, i, 3) /\ ClassAt(c, i + 3, {"-", "."} \cup SpaceChars)
              /\ DigitsAt(c, i + 4, 3) /\ ClassAt(c, i + 7, {"-", "."} \cup SpaceChars)
              /\ DigitsAt(c, i + 8, 4) /\ WordBoundary(c, i + 12)
           THEN 12 ELSE 0
      [] p = 3 ->
           IF WordBoundary(c, i) /\ DigitsAt(c, i, 3)
           THEN LET b == IF ClassAt(c, i + 3, {"-", "."}) THEN i + 4 ELSE i + 3
                IN  IF DigitsAt(c, b, 4) /\ WordBoundary(c, b + 4) THEN b + 4 - i ELSE 0
           ELSE 0

REDACTED == <<"[", "R", "E", "D", "A", "C", "T", "E", "D", "]">>

\* re.sub(pattern p, '[REDACTED]', c) from position i on: leftmost matches, not
\* overlapping, each replaced; the other characters copied
RECURSIVE re_sub_from(_, _, _)
re_sub_from(p, c, i) ==
    IF i > Len(c) THEN <<>>
    ELSE LET n == MatchLen(p, c, i)
         IN  IF n > 0 THEN REDACTED \o re_sub_from(p, c, i + n)
             ELSE <<c[i]>> \o re_sub_from(p, c, i + 1)

\* Mutant: count=1, only the first match is replaced
re_sub_First(p, c) ==
    LET hits == {i \in 1..Len(c) : MatchLen(p, c, i) > 0}
    IN  IF hits = {} THEN c
        ELSE LET i == CHOOSE h \in hits : \A k \in hits : h <= k
             IN  SubSeq(c, 1, i - 1) \o REDACTED \o SubSeq(c, i + MatchLen(p, c, i), Len(c))

\* re.sub(pattern p, '[REDACTED]', c)
re_sub(p, c) == re_sub_from(p, c, 1)

-----------------------------------------------------------------------------
(* src/api/handler.py *)

\* k.lower() for the header names of the model
lower(k) ==
    CASE k \in {"Content-Type", "content-type"} -> "content-type"
      [] k \in {"X-Tenant-ID", "x-tenant-id"}   -> "x-tenant-id"
      [] k \in {"X-Request-ID", "x-request-id"} -> "x-request-id"
      [] OTHER -> k

\* Mutant: the header names are not lowercased
LowerHeaders_AsSent(h) == h

\* {k.lower(): v for k, v in headers.items()}
LowerHeaders(h) ==
    [k \in {lower(n) : n \in DOMAIN h} |-> h[CHOOSE n \in DOMAIN h : lower(n) = k]]

\* `needle in content_type` for the content types of the model
Contains(v, needle) ==
    /\ v.ty = "str"
    /\ \/ v.s = needle
       \/ <<v.s, needle>> \in {<<"application/json; charset=utf-8", "application/json">>}

\* os.environ.get(name): None when unset
EnvUnset == None

\* get_queue_url(): the cached global after the call, and the URL or the raise
get_queue_url(Q, env) ==
    IF Q = None
    THEN IF ~Truthy(env)
         THEN [raised |-> TRUE, QUEUE_URL |-> env]
         ELSE [raised |-> FALSE, QUEUE_URL |-> env, url |-> env]
    ELSE [raised |-> FALSE, QUEUE_URL |-> Q, url |-> Q]

BadRequest(msg) == [kind |-> "error", statusCode |-> 400, error |-> "Bad Request", message |-> msg]

\* Mutant: a missing log_id is filled from one uuid drawn once at import
GenerateIds_DrawnOnce(log_id, headers, n) ==
    [log_id     |-> IF ~Truthy(log_id) THEN Uuid(0) ELSE log_id,
     request_id |-> IF "x-request-id" \in DOMAIN headers
                        THEN headers["x-request-id"] ELSE Uuid(n + 1),
     uuids      |-> n + 1]

\* The values validate_and_normalize gives log_id and request_id, from the
\* payload's log_id (None on the text/plain path), the lowercased headers and the
\* number n of uuid4 values drawn before: uuid4 is drawn for log_id only when it
\* is missing, and always for the default of headers.get('x-request-id', ...).
GenerateIds(log_id, headers, n) ==
    LET n1 == IF ~Truthy(log_id) THEN n + 1 ELSE n
    IN  [log_id     |-> IF ~Truthy(log_id) THEN Uuid(n1) ELSE log_id,
         request_id |-> IF "x-request-id" \in DOMAIN headers
                            THEN headers["x-request-id"] ELSE Uuid(n1 + 1),
         uuids      |-> n1 + 1]

\* The message dict of lines 133-140
Message(tenant_id, ids, normalized_text, source, t) ==
    [kind |-> "message", uuids |-> ids.uuids,
     message |-> Dict([tenant_id       |-> tenant_id,
                       log_id          |-> ids.log_id,
                       normalized_text |-> normalized_text,
                       source          |-> Str(source),
                       received_at     |-> [ty |-> "time", t |-> t],
                       request_id      |-> ids.request_id])]

\* The JSON branch after json.loads succeeded with `payload`
NormalizeJson(payload, headers, n, t) ==
    IF payload.ty # "dict"
    THEN [kind |-> "raise", exc |-> "AttributeError"]      \* payload.get
    ELSE LET tenant_id == Get(payload, "tenant_id")
             log_id == Get(payload, "log_id")
             normalized_text == Get(payload, "text")
         IN  IF ~Truthy(tenant_id)
                 THEN BadRequest("tenant_id is required in JSON payload")
             ELSE IF ~Truthy(normalized_text)
                 THEN BadRequest("text field is required in JSON payload")
             ELSE Message(tenant_id, GenerateIds(log_id, headers, n),
                          normalized_text, "json_upload", t)

\* The text/plain branch
NormalizeText(body, headers, n, t) ==
    LET tenant_id == IF "x-tenant-id" \in DOMAIN headers
                     THEN headers["x-tenant-id"] ELSE None
    IN  IF ~Truthy(tenant_id)
            THEN BadRequest("X-Tenant-ID header is required for text/plain requests")
        ELSE Message(tenant_id, GenerateIds(None, headers, n), body, "text_upload", t)

\* validate_and_normalize(event), with n uuid4 values drawn before and the clock at t:
\*   [kind |-> "message", message, uuids]   returns (message, None)
\*   [kind |-> "error", statusCode, ...]    returns (None, error_response)
\*   [kind |-> "raise", exc]                an exception leaves the function
validate_and_normalize(event, n, t) ==
    LET headers == LowerHeaders(IF "headers" \in DOMAIN event THEN event.headers ELSE <<>>)
        content_type == IF "content-type" \in DOMAIN headers
                        THEN headers["content-type"] ELSE Str("")
        body == IF "body" \in DOMAIN event THEN event.body ELSE Text(<<>>)
    IN  IF ~Truthy(body) \/ StripsToEmpty(body)
            THEN BadRequest("Request body cannot be empty")
        ELSE IF Contains(content_type, "application/json")
            THEN LET dec == json_loads(body)
                 IN  IF ~dec.ok THEN BadRequest("Invalid JSON")
                     ELSE NormalizeJson(dec.val, headers, n, t)
        ELSE IF Contains(content_type, "text/plain")
            THEN NormalizeText(body, headers, n, t)
        ELSE BadRequest("Content-Type must be application/json or text/plain")

\* sqs.send_message(QueueUrl, MessageBody, MessageAttributes) is accepted when the
\* parameters are valid (a queue URL, str attribute values) and the transport is up
SendAccepted(url, attrs, transportUp) ==
    /\ url.ty = "str" /\ url.s # ""
    /\ IsStr(attrs.tenant_id) /\ IsStr(attrs.log_id)
    /\ transportUp

\* Mutant: the log_id attribute is filled from the request_id
publish_to_sqs_WrongAttribute(message, Q, env, transportUp) ==
    LET g == get_queue_url(Q, env)
        attrs == [tenant_id |-> message.d.tenant_id, log_id |-> message.d.request_id]
    IN  IF g.raised
            THEN [result |-> FALSE, QUEUE_URL |-> g.QUEUE_URL, accepted |-> <<>>, sends |-> 0]
        ELSE IF ~SendAccepted(g.url, attrs, transportUp)
            THEN [result |-> FALSE, QUEUE_URL |-> g.QUEUE_URL, accepted |-> <<>>, sends |-> 1]
        ELSE [result |-> TRUE, QUEUE_URL |-> g.QUEUE_URL, sends |-> 1,
              accepted |-> << [QueueUrl          |-> g.url,
                               MessageBody       |-> json_dumps(message),
                               MessageAttributes |-> attrs] >>]

\* Mutant: a send that fails is tried once more
publish_to_sqs_Retries(message, Q, env, transportUp) ==
    LET g == get_queue_url(Q, env)
        attrs == [tenant_id |-> message.d.tenant_id, log_id |-> message.d.log_id]
    IN  IF g.raised
            THEN [result |-> FALSE, QUEUE_URL |-> g.QUEUE_URL, accepted |-> <<>>, sends |-> 0]
        ELSE IF ~SendAccepted(g.url, attrs, transportUp)
            THEN [result |-> FALSE, QUEUE_URL |-> g.QUEUE_URL, accepted |-> <<>>, sends |-> 2]
        ELSE [result |-> TRUE, QUEUE_URL |-> g.QUEUE_URL, sends |-> 1,
              accepted |-> << [QueueUrl          |-> g.url,
                               MessageBody       |-> json_dumps(message),
                               MessageAttributes |-> attrs] >>]

\* publish_to_sqs(message): the value returned, the global after the call, the
\* messages the queue accepted and the number of send_message calls made
publish_to_sqs(message, Q, env, transportUp) ==
    LET g == get_queue_url(Q, env)
        attrs == [tenant_id |-> message.d.tenant_id, log_id |-> message.d.log_id]
    IN  IF g.raised
            THEN [result |-> FALSE, QUEUE_URL |-> g.QUEUE_URL, accepted |-> <<>>, sends |-> 0]
        ELSE IF ~SendAccepted(g.url, attrs, transportUp)
            THEN [result |-> FALSE, QUEUE_URL |-> g.QUEUE_URL, accepted |-> <<>>, sends |-> 1]
        ELSE [result |-> TRUE, QUEUE_URL |-> g.QUEUE_URL, sends |-> 1,
              accepted |-> << [QueueUrl          |-> g.url,
                               MessageBody       |-> json_dumps(message),
                               MessageAttributes |-> attrs] >>]

\* Mutant: the result of publish_to_sqs is not looked at
Respond_AlwaysAccepted(message, pub) ==
    [kind |-> "response", statusCode |-> 202, status |-> "accepted",
     log_id |-> message.d.log_id, request_id |-> message.d.request_id]

\* The response of the API lambda_handler once validation returned a message
Respond(message, pub) ==
    IF pub.result = FALSE
    THEN [kind |-> "response", statusCode |-> 500, error |-> "Internal Server Error"]
    ELSE [kind |-> "response", statusCode |-> 202, status |-> "accepted",
          log_id |-> message.d.log_id, request_id |-> message.d.request_id]

-----------------------------------------------------------------------------
(* The requests of the model *)

Absent == [ty |-> "absent"]

\* a dict entry, or none when the key is absent
Field(k, v) == IF v = Absent THEN <<>> ELSE (k :> v)

Payload(tenant_id, log_id, text) ==
    JsonDoc(Dict(Field("tenant_id", tenant_id) @@ Field("log_id", log_id) @@ Field("text", text)))

Hi == Text(<<"h", "i">>)
Blank == Text(<<" ", "\n">>)

\* JSON objects: every tenant_id with every text, and every log_id on the valid ones
PayloadBodies ==
    {Payload(t, Absent, x) : t \in {Absent, Str(""), Str("acme"), Num(7)},
                             x \in {Absent, Blank, Hi}}
    \cup {Payload(Str("acme"), l, Hi) : l \in {Str(""), Str("001"), Str("002")}}

\* bodies that are no JSON object: None, empty, blank, invalid JSON, a list, a
\* number, null, a string
RawBodies ==
    {None, Text(<<>>), Blank, Hi, Text(<<"[", "1", "]">>), Text(<<"7">>),
     Text(<<"n", "u", "l", "l">>), Text(<<"\"", "s", "\"">>)}

ContentType(v) == "Content-Type" :> Str(v)

TenantHeaders ==
    {<<>>, "X-Tenant-ID" :> Str("acme"), "x-tenant-id" :> Str("beta_inc"),
     "X-Tenant-ID" :> Str("")}

RequestId == "X-Request-ID" :> Str("req-1")

\* other header sets declaring JSON: the header name in lower case and the media
\* type with a parameter, a request id, a tenant header
JsonHeaders ==
    {"content-type" :> Str("application/json; charset=utf-8"),
     ContentType("application/json") @@ RequestId,
     ContentType("application/json") @@ ("X-Tenant-ID" :> Str("acme"))}

\* other header sets declaring text/plain: the header names in lower case, a
\* request id
TextHeaders ==
    {("content-type" :> Str("text/plain")) @@ ("x-tenant-id" :> Str("acme")),
     ContentType("text/plain") @@ ("X-Tenant-ID" :> Str("acme")) @@ RequestId}

\* header sets declaring another content type, or none
OtherHeaders ==
    {<<>>, ContentType("text/html"), "X-Tenant-ID" :> Str("acme")}

Http(method) == [http |-> [method |-> method]]

Ingest(h, b) ==
    [requestContext |-> Http("POST"), rawPath |-> "/ingest", headers |-> h, body |-> b]

\* POST /ingest: every body as JSON; every body that is no JSON object as
\* text/plain of tenant acme; every tenant header with a text, a blank and a JSON
\* object as text/plain; the other header sets with a few bodies; no body at all
IngestEvents ==
    {Ingest(ContentType("application/json"), b) : b \in RawBodies \cup PayloadBodies}
    \cup {Ingest(ContentType("text/plain") @@ ("X-Tenant-ID" :> Str("acme")), b) :
             b \in RawBodies}
    \cup {Ingest(ContentType("text/plain") @@ t, b) :
             t \in TenantHeaders, b \in {Hi, Blank, Payload(Str("acme"), Absent, Hi)}}
    \cup {Ingest(h, b) : h \in JsonHeaders,
                         b \in {Hi, Text(<<"[", "1", "]">>),
                                Payload(Str("acme"), Absent, Hi),
                                Payload(Absent, Absent, Hi)}}
    \cup {Ingest(h, b) : h \in TextHeaders \cup OtherHeaders,
                         b \in {Hi, Payload(Str("acme"), Absent, Hi)}}
    \cup {[requestContext |-> Http("POST"), rawPath |-> "/ingest", headers |-> h] :
             h \in {ContentType("application/json"),
                    ContentType("text/plain") @@ ("X-Tenant-ID" :> Str("acme"))}}

OtherEvents ==
    {[requestContext |-> Http(m), rawPath |-> p,
      headers |-> ContentType("application/json"),
      body |-> Payload(Str("acme"), Absent, Hi)] :
        m \in {"GET", "POST"}, p \in {"/ingest", "/health"}} \ IngestEvents

ApiEvents == IngestEvents \cup OtherEvents

-----------------------------------------------------------------------------
(* The API Lambda *)

NoEvent == [requestContext |-> Http("none")]
NoCall == [kind |-> "none"]

ApiInit ==
    /\ SQS_QUEUE_URL \in {EnvUnset, Str(""), Str("https://sqs/ingest")}
    /\ QUEUE_URL = None
    /\ queue = <<>>
    /\ uuidCount = 0
    /\ apiCalls = 0
    /\ apiEvent = NoEvent
    /\ apiNormalized = NoCall
    /\ apiPublish = [called |-> FALSE]
    /\ apiSends = 0
    /\ apiResponse = NoCall
    /\ generated = <<>>

\* lambda_handler(event, context) of src/api/handler.py, from the route check to
\* the return
api_lambda_handler(event, transportUp) ==
    LET routed == event.requestContext.http.method = "POST" /\ event.rawPath = "/ingest"
        v == validate_and_normalize(event, uuidCount, now)
        pub == publish_to_sqs(v.message, QUEUE_URL, SQS_QUEUE_URL, transportUp)
    IN  /\ apiCalls' = apiCalls + 1
        /\ apiEvent' = event
        /\ UNCHANGED SQS_QUEUE_URL
        /\ IF ~routed
           THEN /\ apiResponse' = [kind |-> "response", statusCode |-> 404, error |-> "Not Found"]
                /\ apiNormalized' = NoCall
                /\ apiPublish' = [called |-> FALSE]
                /\ apiSends' = 0
                /\ UNCHANGED <<QUEUE_URL, queue, uuidCount, generated>>
           ELSE /\ apiNormalized' = v
                /\ IF v.kind # "message"
                   THEN /\ apiResponse' = IF v.kind = "error"
                                              THEN [v EXCEPT !.kind = "response"] ELSE v
                        /\ apiPublish' = [called |-> FALSE]
                        /\ apiSends' = 0
                        /\ UNCHANGED <<QUEUE_URL, queue, uuidCount, generated>>
                   ELSE /\ uuidCount' = v.uuids
                        /\ generated' = IF v.message.d.log_id.ty = "uuid"
                                            THEN Append(generated, v.message.d.log_id)
                                            ELSE generated
                        /\ apiPublish' = [called |-> TRUE, result |-> pub.result]
                        /\ apiSends' = pub.sends
                        /\ QUEUE_URL' = pub.QUEUE_URL
                        /\ queue' = queue \o pub.accepted
                        /\ apiResponse' = Respond(v.message, pub)

ApiRequest ==
    /\ apiCalls < MaxRequests
    /\ \E event \in ApiEvents, transportUp \in BOOLEAN :
           api_lambda_handler(event, transportUp)
    /\ UNCHANGED <<workerVars, now, sqs>>

Tick ==
    /\ now < MaxTime
    /\ now' = now + 1
    /\ UNCHANGED <<apiVars, workerVars, sqs>>

-----------------------------------------------------------------------------
(* src/worker/handler.py *)

Workers == {"w1", "w2"}

\* Mutant: the result is stripped of surrounding whitespace
redact_phone_numbers_Stripped(text) == Text(strip(re_sub(3, re_sub(2, re_sub(1, text.c)))))

\* redact_phone_numbers(text): the three patterns in order, each over the output
\* of the previous one
redact_phone_numbers(text) == Text(re_sub(3, re_sub(2, re_sub(1, text.c))))

\* simulate_heavy_processing(text) and re.sub need a str: len(None), len(7) and
\* re.sub on a non-str raise TypeError
ProcessingRaises(normalized_text) == normalized_text.ty # "text"

\* get_dynamodb_table(): the cached globals after the call, and the Table or the raise
get_dynamodb_table(TN, tbl, env) ==
    IF TN = None
    THEN IF ~Truthy(env)
         THEN [raised |-> TRUE, TABLE_NAME |-> env, table |-> tbl]
         ELSE [raised |-> FALSE, TABLE_NAME |-> env, table |-> Str("Table"), value |-> Str("Table")]
    ELSE [raised |-> FALSE, TABLE_NAME |-> TN, table |-> tbl, value |-> tbl]

ItemFields == {"tenant_id", "log_id", "source", "normalized_text", "received_at", "request_id"}

\* Mutant: the table is keyed by log_id alone
Key_IgnoresTenant(item) == <<item.log_id, item.log_id>>

\* the primary key of an item: partition key tenant_id, sort key log_id
Key(item) == <<item.tenant_id, item.log_id>>

\* a key attribute DynamoDB accepts: a non-empty string
KeyAttribute(v) == IsStr(v) /\ Truthy(v)

\* Mutant: the item is added beside the one stored under the same key
put_item_Adds(items, item) == items \cup {item}

\* Mutant: an item stored under the key with a higher attempt is kept
put_item_KeepsFresher(items, item) ==
    IF \E i \in items : Key(i) = Key(item) /\ i.attempt > item.attempt THEN items
    ELSE {i \in items : Key(i) # Key(item)} \cup {item}

\* table.put_item(Item=item) on a table holding `items`: the item replaces the
\* one stored under the same (tenant_id, log_id), if any
put_item(items, item) == {i \in items : Key(i) # Key(item)} \cup {item}

\* table.put_item raises: the table handle is None, the key is no valid key, or
\* the store is unavailable
put_item_raises(tbl, item, storeUp) ==
    \/ tbl = None
    \/ ~KeyAttribute(item.tenant_id) \/ ~KeyAttribute(item.log_id)
    \/ ~storeUp

\* the item of lines 76-87
Item(message, modified_data, attempt, worker_id, t) ==
    [tenant_id     |-> message.d.tenant_id,
     log_id        |-> message.d.log_id,
     source        |-> message.d.source,
     original_text |-> message.d.normalized_text,
     modified_data |-> modified_data,
     processed_at  |-> [ty |-> "time", t |-> t],
     received_at   |-> message.d.received_at,
     request_id    |-> message.d.request_id,
     worker_id     |-> worker_id,
     attempt       |-> attempt]

\* Mutant: an item already stored under the key is updated, keeping its worker_id
store_processed_log_Merges(message, modified_data, attempt, worker_id, TN, tbl, env, items, storeUp, t) ==
    LET g == get_dynamodb_table(TN, tbl, env)
        failed == [result |-> FALSE, TABLE_NAME |-> g.TABLE_NAME, table |-> g.table,
                   items |-> items, written |-> <<>>]
    IN  IF g.raised THEN failed
        ELSE IF ~(ItemFields \subseteq DOMAIN message.d) THEN failed
        ELSE LET item == Item(message, modified_data, attempt, worker_id, t)
                 old == {i \in items : Key(i) = Key(item)}
                 merged == IF old = {} THEN item
                           ELSE [item EXCEPT !.worker_id = (CHOOSE i \in old : TRUE).worker_id]
             IN  IF put_item_raises(g.value, item, storeUp) THEN failed
                 ELSE [result |-> TRUE, TABLE_NAME |-> g.TABLE_NAME, table |-> g.table,
                       items |-> put_item(items, merged), written |-> <<item>>]

\* store_processed_log(message, modified_data, attempt, worker_id): the value
\* returned, the globals and the table's items after the call, and the item
\* put_item stored, if any
store_processed_log(message, modified_data, attempt, worker_id, TN, tbl, env, items, storeUp, t) ==
    LET g == get_dynamodb_table(TN, tbl, env)
        failed == [result |-> FALSE, TABLE_NAME |-> g.TABLE_NAME, table |-> g.table,
                   items |-> items, written |-> <<>>]
    IN  IF g.raised THEN failed
        ELSE IF ~(ItemFields \subseteq DOMAIN message.d) THEN failed      \* KeyError
        ELSE LET item == Item(message, modified_data, attempt, worker_id, t)
             IN  IF put_item_raises(g.value, item, storeUp) THEN failed
                 ELSE [result |-> TRUE, TABLE_NAME |-> g.TABLE_NAME, table |-> g.table,
                       items |-> put_item(items, item), written |-> <<item>>]

\* Mutant: the result of store_processed_log is not looked at
process_message_IgnoresStore(message_body, worker_id, attempt, TN, tbl, env, items, storeUp, t) ==
    LET unchanged == [TABLE_NAME |-> TN, table |-> tbl, items |-> items, written |-> <<>>]
    IN  IF message_body.ty # "dict"
            THEN [kind |-> "raise", stage |-> "decode"] @@ unchanged
        ELSE IF ProcessingRaises(Get(message_body, "normalized_text"))
            THEN [kind |-> "return", result |-> FALSE, stage |-> "process"] @@ unchanged
        ELSE LET modified_data == redact_phone_numbers(Get(message_body, "normalized_text"))
                 st == store_processed_log(message_body, modified_data, attempt, worker_id,
                                           TN, tbl, env, items, storeUp, t)
             IN  [kind |-> "return", stage |-> "store", result |-> TRUE] @@ st

\* process_message(message_body, receipt_handle, worker_id, attempt):
\*   [kind |-> "return", result, ...]  or  [kind |-> "raise", ...] when the except
\*   clause itself raises (message_body.get on a value that is no dict)
process_message(message_body, worker_id, attempt, TN, tbl, env, items, storeUp, t) ==
    LET unchanged == [TABLE_NAME |-> TN, table |-> tbl, items |-> items, written |-> <<>>]
    IN  IF message_body.ty # "dict"
            THEN [kind |-> "raise", stage |-> "decode"] @@ unchanged
        ELSE IF ProcessingRaises(Get(message_body, "normalized_text"))
            THEN [kind |-> "return", result |-> FALSE, stage |-> "process"] @@ unchanged
        ELSE LET modified_data == redact_phone_numbers(Get(message_body, "normalized_text"))
                 st == store_processed_log(message_body, modified_data, attempt, worker_id,
                                           TN, tbl, env, items, storeUp, t)
             IN  [kind |-> "return", stage |-> "store"] @@ st

\* int(x)
py_int(v) ==
    IF v.ty = "int" THEN [ok |-> TRUE, val |-> v.n]
    ELSE IF v.ty = "text" /\ AllDigits(strip(v.c))
        THEN [ok |-> TRUE, val |-> DecimalValue(strip(v.c))]
    ELSE [ok |-> FALSE]

\* int(attributes.get('ApproximateReceiveCount', 1)) of a record
Attempt(record) ==
    IF "attributes" \in DOMAIN record /\ "ApproximateReceiveCount" \in DOMAIN record.attributes
    THEN py_int(record.attributes.ApproximateReceiveCount)
    ELSE [ok |-> TRUE, val |-> 1]

\* Mutant: the context is not looked at
WorkerId_IgnoresContext(context) == Str("local-worker")

\* context.function_name if context else 'local-worker'
WorkerId(context) == IF context = None THEN Str("local-worker") ELSE context.function_name

\* Mutant: a record that fails empties what the batch has stored
ProcessRecord_DiscardsWrites(record, context, TN, tbl, env, items, storeUp, t) ==
    LET unchanged == [TABLE_NAME |-> TN, table |-> tbl, items |-> {}, written |-> <<>>]
        dec == json_loads(record.body)
        att == Attempt(record)
    IN  IF ~dec.ok THEN [failed |-> TRUE, stage |-> "decode"] @@ unchanged
        ELSE IF ~att.ok THEN [failed |-> TRUE, stage |-> "attempt"] @@ unchanged
        ELSE LET r == process_message(dec.val, WorkerId(context), att.val,
                                      TN, tbl, env, items, storeUp, t)
             IN  IF r.kind = "raise"
                     THEN [failed |-> TRUE, stage |-> r.stage] @@ unchanged
                 ELSE [failed |-> ~r.result, stage |-> IF r.result THEN "ok" ELSE r.stage,
                       TABLE_NAME |-> r.TABLE_NAME, table |-> r.table,
                       items |-> IF r.result THEN r.items ELSE {},
                       written |-> r.written]

\* One pass of the for loop of lambda_handler over `record`: whether the record's
\* messageId is appended to batch_item_failures, at which stage it failed ("ok" if
\* it did not), the globals and the table's items after it, the item stored if any
ProcessRecord(record, context, TN, tbl, env, items, storeUp, t) ==
    LET unchanged == [TABLE_NAME |-> TN, table |-> tbl, items |-> items, written |-> <<>>]
        dec == json_loads(record.body)
        att == Attempt(record)
    IN  IF ~dec.ok THEN [failed |-> TRUE, stage |-> "decode"] @@ unchanged
        ELSE IF ~att.ok THEN [failed |-> TRUE, stage |-> "attempt"] @@ unchanged
        ELSE LET r == process_message(dec.val, WorkerId(context), att.val,
                                      TN, tbl, env, items, storeUp, t)
             IN  IF r.kind = "raise"
                     THEN [failed |-> TRUE, stage |-> r.stage] @@ unchanged
                 ELSE [failed |-> ~r.result, stage |-> IF r.result THEN "ok" ELSE r.stage,
                       TABLE_NAME |-> r.TABLE_NAME, table |-> r.table, items |-> r.items,
                       written |-> r.written]

\* event.get('Records', [])
Records(event) == IF "Records" \in DOMAIN event THEN event.Records ELSE <<>>

-----------------------------------------------------------------------------
(* The batches of the model *)

Phone == Text(<<"5", "5", "5", "-", "0", "1", "9", "9">>)

\* a queued IngestMessage, as the API builds it
QueuedMessage(tenant_id, log_id, text) ==
    [tenant_id       |-> tenant_id,
     log_id          |-> log_id,
     normalized_text |-> text,
     source          |-> Str("json_upload"),
     received_at     |-> [ty |-> "time", t |-> 0],
     request_id      |-> Str("req-1")]

Without(f, k) == [x \in DOMAIN f \ {k} |-> f[x]]

\* bodies that cannot be processed: invalid JSON, a JSON list, an object
\* without normalized_text, an object without tenant_id
InvalidJson == Hi
JsonList == Text(<<"[", "1", "]">>)
NoText == json_dumps(Dict(Without(QueuedMessage(Str("acme"), Str("001"), Hi), "normalized_text")))
NoTenant == json_dumps(Dict(Without(QueuedMessage(Str("acme"), Str("001"), Hi), "tenant_id")))

ReceiveCount(c) == [attributes |-> [ApproximateReceiveCount |-> Text(c)]]

AcmeHi == json_dumps(Dict(QueuedMessage(Str("acme"), Str("001"), Hi)))
AcmePhone == json_dumps(Dict(QueuedMessage(Str("acme"), Str("001"), Phone)))
BetaPhone == json_dumps(Dict(QueuedMessage(Str("beta_inc"), Str("001"), Phone)))

\* records that process and store: two texts under one key, first and second
\* delivery, and the same log_id under another tenant
GoodChoices ==
    {[body |-> AcmeHi], [body |-> AcmePhone] @@ ReceiveCount(<<"2">>), [body |-> BetaPhone]}

\* records that fail whatever the store does, with and without a receive count
BadChoices ==
    {[body |-> InvalidJson] @@ ReceiveCount(<<"3">>), [body |-> JsonList], [body |-> NoText],
     [body |-> NoTenant], [body |-> AcmeHi] @@ ReceiveCount(<<"x">>)}

RecordChoices == GoodChoices \cup BadChoices

MessageId(i) == [ty |-> "mid", n |-> i]

\* the i-th record delivered overall: SQS gives every delivery its own messageId
\* and receipt handle
Record(i, choice) ==
    [messageId |-> MessageId(i), receiptHandle |-> [ty |-> "rh", n |-> i]] @@ choice

\* batches of n records drawn from `choices`, the first being the (first+1)-th
\* delivered
BatchesFrom(choices, n, first) ==
    {[i \in 1..n |-> Record(first + i, f[i])] : f \in [1..n -> choices]}

BatchesOf(n, first) == BatchesFrom(RecordChoices, n, first)

\* deliveries to race with each other: two under one key, with different texts
\* and receive counts, and one with the same log_id under another tenant
DuplicateChoices ==
    {[body |-> AcmeHi], [body |-> AcmePhone] @@ ReceiveCount(<<"2">>), [body |-> BetaPhone]}

\* the pieces texts are made of: digit groups with and without a separator, an
\* area code in parentheses, a space, a letter, a whole 7-digit number, and
\* an order id, an amount and a path
Tokens ==
    {<<"5", "5", "5">>, <<"5", "5", "5", "-">>, <<"0", "1", "9", "9">>,
     <<"(", "5", "5", "5", ")">>, <<" ">>, <<"a">>,
     <<"5", "5", "5", ".", "0", "1", "0", "0">>,
     <<"#", "1", "2", "3", "4", "5", " ", "$", "9", ".", "9", "9", "/", "v", "1">>}

RECURSIVE Flatten(_)
Flatten(seq) == IF seq = <<>> THEN <<>> ELSE Head(seq) \o Flatten(Tail(seq))

\* the texts of 1..n tokens
TextsOf(n) == {Text(Flatten(f)) : f \in UNION {[1..k -> Tokens] : k \in 1..n}}

NoContext == None
LambdaContext == [function_name |-> Str("log-worker")]

-----------------------------------------------------------------------------
(* The worker Lambda *)

WorkerInit ==
    /\ DYNAMODB_TABLE_NAME \in {EnvUnset, Str(""), Str("logs")}
    /\ store = {}
    /\ TABLE_NAME = [w \in Workers |-> None]
    /\ table = [w \in Workers |-> None]
    /\ wPc = [w \in Workers |-> "idle"]
    /\ wEvent = [w \in Workers |-> <<>>]
    /\ wContext \in [Workers -> {NoContext, LambdaContext}]
    /\ wPos = [w \in Workers |-> 0]
    /\ wReadAt = [w \in Workers |-> None]
    /\ batch_item_failures = [w \in Workers |-> <<>>]
    /\ wOutcome = [w \in Workers |-> <<>>]
    /\ wResponse = [w \in Workers |-> NoCall]
    /\ delivered = 0
    /\ writes = <<>>

\* lambda_handler(event, context) is invoked: lines 164-172
WorkerStart(w, event) ==
    /\ wPc[w] \in {"idle", "returned"}
    /\ wPc' = [wPc EXCEPT ![w] = "running"]
    /\ wEvent' = [wEvent EXCEPT ![w] = event]
    /\ wPos' = [wPos EXCEPT ![w] = 0]
    /\ batch_item_failures' = [batch_item_failures EXCEPT ![w] = <<>>]
    /\ wOutcome' = [wOutcome EXCEPT ![w] = <<>>]
    /\ wResponse' = [wResponse EXCEPT ![w] = NoCall]
    /\ UNCHANGED <<DYNAMODB_TABLE_NAME, store, TABLE_NAME, table, wContext, wReadAt, writes>>

\* the invocation, counted in the records delivered so far
WorkerInvoke(w, event) ==
    /\ WorkerStart(w, event)
    /\ delivered' = delivered + Len(Records(event))

\* Mutant: a record that fails ends the loop
WorkerPass_AbortsOnFailure(w, storeUp, t) ==
    /\ wPc[w] = "running"
    /\ wPos[w] < Len(Records(wEvent[w]))
    /\ LET record == Records(wEvent[w])[wPos[w] + 1]
           r == ProcessRecord(record, wContext[w], TABLE_NAME[w], table[w],
                              DYNAMODB_TABLE_NAME, store, storeUp, t)
       IN  /\ batch_item_failures' =
                 [batch_item_failures EXCEPT ![w] =
                     IF r.failed THEN Append(@, [itemIdentifier |-> record.messageId]) ELSE @]
           /\ store' = r.items
           /\ TABLE_NAME' = [TABLE_NAME EXCEPT ![w] = r.TABLE_NAME]
           /\ table' = [table EXCEPT ![w] = r.table]
           /\ wOutcome' = [wOutcome EXCEPT ![w] =
                              Append(@, [stage |-> r.stage, wrote |-> r.written # <<>>])]
           /\ writes' = writes \o r.written
           /\ wPos' = [wPos EXCEPT ![w] = IF r.failed THEN Len(Records(wEvent[w])) ELSE @ + 1]
    /\ UNCHANGED <<DYNAMODB_TABLE_NAME, wPc, wEvent, wContext, wResponse, delivered>>

\* one pass of the for loop, lines 174-203, in which utcnow() returned t
WorkerPass(w, storeUp, t) ==
    /\ wPc[w] = "running"
    /\ wPos[w] < Len(Records(wEvent[w]))
    /\ LET record == Records(wEvent[w])[wPos[w] + 1]
           r == ProcessRecord(record, wContext[w], TABLE_NAME[w], table[w],
                              DYNAMODB_TABLE_NAME, store, storeUp, t)
       IN  /\ batch_item_failures' =
                 [batch_item_failures EXCEPT ![w] =
                     IF r.failed THEN Append(@, [itemIdentifier |-> record.messageId]) ELSE @]
           /\ store' = r.items
           /\ TABLE_NAME' = [TABLE_NAME EXCEPT ![w] = r.TABLE_NAME]
           /\ table' = [table EXCEPT ![w] = r.table]
           /\ wOutcome' = [wOutcome EXCEPT ![w] =
                              Append(@, [stage |-> r.stage, wrote |-> r.written # <<>>])]
           /\ writes' = writes \o r.written
    /\ wPos' = [wPos EXCEPT ![w] = @ + 1]
    /\ UNCHANGED <<DYNAMODB_TABLE_NAME, wPc, wEvent, wContext, wResponse, delivered>>

\* one pass of the for loop as one step: the clock is read and the item is put
\* at the same instant
WorkerRecord(w, storeUp) ==
    /\ wReadAt[w] = None
    /\ WorkerPass(w, storeUp, now)
    /\ UNCHANGED wReadAt

\* the first part of a pass, up to the utcnow() of line 82
WorkerReadClock(w) ==
    /\ wPc[w] = "running"
    /\ wPos[w] < Len(Records(wEvent[w]))
    /\ wReadAt[w] = None
    /\ wReadAt' = [wReadAt EXCEPT ![w] = [ty |-> "time", t |-> now]]
    /\ UNCHANGED <<DYNAMODB_TABLE_NAME, store, TABLE_NAME, table, wPc, wEvent, wContext, wPos,
                   batch_item_failures, wOutcome, wResponse, delivered, writes>>

\* the rest of the pass: put_item of line 90 on the table as it is by then, and
\* what follows it up to line 203
WorkerPutItem(w, storeUp) ==
    /\ wReadAt[w] # None
    /\ WorkerPass(w, storeUp, wReadAt[w].t)
    /\ wReadAt' = [wReadAt EXCEPT ![w] = None]

\* Mutant: the failure list is not returned
WorkerReturn_ReportsNothing(w) ==
    /\ wPc[w] = "running"
    /\ wPos[w] = Len(Records(wEvent[w]))
    /\ wPc' = [wPc EXCEPT ![w] = "returned"]
    /\ wResponse' = [wResponse EXCEPT ![w] = [kind |-> "response", batchItemFailures |-> <<>>]]
    /\ UNCHANGED <<DYNAMODB_TABLE_NAME, store, TABLE_NAME, table, wEvent, wContext, wPos,
                   wReadAt, batch_item_failures, wOutcome, delivered, writes>>

\* the return of lines 207-209
WorkerReturn(w) ==
    /\ wPc[w] = "running"
    /\ wPos[w] = Len(Records(wEvent[w]))
    /\ wPc' = [wPc EXCEPT ![w] = "returned"]
    /\ wResponse' = [wResponse EXCEPT ![w] =
                        [kind |-> "response", batchItemFailures |-> batch_item_failures[w]]]
    /\ UNCHANGED <<DYNAMODB_TABLE_NAME, store, TABLE_NAME, table, wEvent, wContext, wPos,
                   wReadAt, batch_item_failures, wOutcome, delivered, writes>>

\* the event source delivers a batch, or an event without Records, to worker w
Deliver(w) ==
    /\ \/ \E n \in 1..MaxBatch :
             /\ delivered + n <= MaxDelivered
             /\ \E batch \in BatchesOf(n, delivered) : WorkerInvoke(w, [Records |-> batch])
       \/ /\ wPc[w] = "idle"
          /\ WorkerInvoke(w, [source |-> "aws:sqs"])
    /\ UNCHANGED <<apiVars, now, sqs>>

Process(w) ==
    /\ \E storeUp \in BOOLEAN : WorkerRecord(w, storeUp)
    /\ UNCHANGED <<apiVars, now, sqs>>

Return(w) ==
    /\ WorkerReturn(w)
    /\ UNCHANGED <<apiVars, now, sqs>>

\* the queue is not part of the run
NoTransport == sqs = <<>>

\* the worker containers are not started
WorkersIdle == DYNAMODB_TABLE_NAME = EnvUnset /\ wContext = [w \in Workers |-> NoContext]

SpecApiInit == ApiInit /\ WorkerInit /\ WorkersIdle /\ NoTransport /\ now = 0

SpecApiNext == ApiRequest \/ Tick

\* The API Lambda alone: requests arrive one after another at one container
SpecApi == SpecApiInit /\ [][SpecApiNext]_vars

\* the API container is not started
ApiIdle == SQS_QUEUE_URL = EnvUnset

\* worker w2 is not started; the context is read for the worker_id of the items
\* only, so it varies where a table is configured
SpecWorkerInit ==
    /\ ApiInit /\ ApiIdle /\ WorkerInit /\ NoTransport /\ now = 0
    /\ wContext["w2"] = NoContext
    /\ ~Truthy(DYNAMODB_TABLE_NAME) => wContext["w1"] = LambdaContext

SpecWorkerNext == Deliver("w1") \/ Process("w1") \/ Return("w1") \/ Tick

\* One worker container: batches are delivered to it one after another
SpecWorker == SpecWorkerInit /\ [][SpecWorkerNext]_vars

SpecBatchNext == Deliver("w1") \/ Process("w1") \/ Return("w1")

\* One worker container and its batches, the clock standing still
SpecBatch == SpecWorkerInit /\ [][SpecBatchNext]_vars

\* the for loop of w has a record left (Process(w) is enabled)
PassPending(w) == wPc[w] = "running" /\ wPos[w] < Len(Records(wEvent[w]))

\* a step of Process(w)
PassStep(w) == wPos'[w] = wPos[w] + 1

\* WF_vars(Process(w)), with what enables Process(w) and what a step of it does
\* written out
FairProcess(w) == []<>(~PassPending(w)) \/ []<><<PassStep(w)>>_vars

\* the Lambda runtime runs an invocation it has started to its end
SpecBatchFair == SpecBatch /\ FairProcess("w1") /\ WF_vars(Return("w1"))

\* the event source delivers one batch to worker w
DeliverDuplicates(w) ==
    /\ wPc[w] = "idle"
    /\ \E n \in 1..MaxBatch :
          /\ delivered + n <= MaxDelivered
          /\ \E batch \in BatchesFrom(DuplicateChoices, n, delivered) :
                 WorkerInvoke(w, [Records |-> batch])
    /\ UNCHANGED <<apiVars, now, sqs>>

ReadClock(w) ==
    /\ WorkerReadClock(w)
    /\ UNCHANGED <<apiVars, now, sqs>>

\* the table is available
PutItem(w) ==
    /\ WorkerPutItem(w, TRUE)
    /\ UNCHANGED <<apiVars, now, sqs>>

\* the event source delivers one message of tenant acme, with any text, to
\* worker w
DeliverText(w) ==
    /\ wPc[w] = "idle"
    /\ \E text \in TextsOf(MaxTokens) :
          WorkerInvoke(w, [Records |-> <<Record(1, [body |-> json_dumps(Dict(
                               QueuedMessage(Str("acme"), Str("001"), text)))])>>])
    /\ UNCHANGED <<apiVars, now, sqs>>

\* one pass of the for loop with the table available
ProcessStored(w) ==
    /\ WorkerRecord(w, TRUE)
    /\ UNCHANGED <<apiVars, now, sqs>>

SpecRedactInit ==
    /\ ApiInit /\ ApiIdle /\ WorkerInit /\ NoTransport /\ now = 0
    /\ DYNAMODB_TABLE_NAME = Str("logs")
    /\ wContext = [w \in Workers |-> IF w = "w1" THEN LambdaContext ELSE NoContext]

SpecRedactNext == DeliverText("w1") \/ ProcessStored("w1")

\* redact_phone_numbers on every text of the model: one worker processes one
\* message and stores the text with its redaction
SpecRedact == SpecRedactInit /\ [][SpecRedactNext]_vars

\* the instant at which the deadline of a batch received at time 0 (the end of
\* its visibility timeout) is reached
BatchDeadline == 1

\* the event source delivers a batch to worker w at time 0
DeliverAtStart(w) == now = 0 /\ Deliver(w)

SpecDeadlineNext == DeliverAtStart("w1") \/ Process("w1") \/ Return("w1") \/ Tick

\* One worker container whose batches all arrive at time 0, time passing
\* while it processes them (the time.sleep of simulate_heavy_processing)
SpecDeadline == SpecWorkerInit /\ [][SpecDeadlineNext]_vars

\* two worker containers on one table, told apart by their worker_id
SpecConcurrentInit ==
    /\ ApiInit /\ ApiIdle /\ WorkerInit /\ NoTransport /\ now = 0
    /\ DYNAMODB_TABLE_NAME = Str("logs")
    /\ wContext = [w \in Workers |-> IF w = "w1" THEN LambdaContext ELSE NoContext]

SpecConcurrentNext ==
    \/ \E w \in Workers : DeliverDuplicates(w) \/ ReadClock(w) \/ PutItem(w) \/ Return(w)
    \/ Tick

\* Two worker containers run their batches in any interleaving; within a pass
\* the clock is read before the item is put
SpecConcurrent == SpecConcurrentInit /\ [][SpecConcurrentNext]_vars

-----------------------------------------------------------------------------
(* Properties of the API Lambda, stated on its last invocation *)

Routed(event) == event.requestContext.http.method = "POST" /\ event.rawPath = "/ingest"

\* the value of the request's header `name`, whatever the case of its name, or None
HeaderValue(event, names) ==
    IF "headers" \in DOMAIN event /\ \E k \in DOMAIN event.headers : k \in names
    THEN event.headers[CHOOSE k \in DOMAIN event.headers : k \in names]
    ELSE None

ContentTypeOf(event) == HeaderValue(event, {"Content-Type", "content-type"})
TenantHeaderOf(event) == HeaderValue(event, {"X-Tenant-ID", "x-tenant-id"})

JsonKind(event) ==
    ContentTypeOf(event) \in {Str("application/json"), Str("application/json; charset=utf-8")}
TextKind(event) == ContentTypeOf(event) = Str("text/plain")

BodyOf(event) == IF "body" \in DOMAIN event THEN event.body ELSE Text(<<>>)

NonBlankBody(event) ==
    /\ BodyOf(event).ty \in {"text", "json"}
    /\ BodyOf(event).ty = "text" => \E i \in 1..Len(BodyOf(event).c) :
                                        BodyOf(event).c[i] \notin Whitespace

\* the body is the JSON text of an object
ObjectBody(event) == BodyOf(event).ty = "json" /\ BodyOf(event).doc.ty = "dict"
PayloadOf(event) == BodyOf(event).doc

\* a JSON field that is present with a non-empty value
Supplied(payload, k) ==
    /\ k \in DOMAIN payload.d
    /\ payload.d[k] \notin {None, Str(""), Text(<<>>), Num(0)}

\* the request names no tenant: no non-empty tenant_id field (JSON), no non-empty
\* X-Tenant-ID header (text/plain)
LacksTenant(event) ==
    \/ JsonKind(event) /\ ~(ObjectBody(event) /\ Supplied(PayloadOf(event), "tenant_id"))
    \/ TextKind(event) /\ TenantHeaderOf(event) \in {None, Str("")}

Is400(r) == r.kind \in {"error", "response"} /\ r.statusCode = 400
Is(r, code) == r.kind = "response" /\ r.statusCode = code

\* C4 (as claimed): every POST /ingest request that lacks a tenant identifier gets
\* no message and a 400 from validate_and_normalize, the API lambda_handler
\* returns that 400 and nothing is sent to the queue.
C4_ValidationCompleteness ==
    (Routed(apiEvent) /\ LacksTenant(apiEvent)) =>
        /\ Is400(apiNormalized)
        /\ Is400(apiResponse)
        /\ apiSends = 0 /\ ~apiPublish.called

\* C6 (as claimed): for a JSON request with a non-blank body, normalization ends
\* in a message or a validation error, and a body that fails to decode or decodes
\* to a non-object yields a 400 and no message, never an uncaught exception.
C6_JsonBodyNeverRaises ==
    (Routed(apiEvent) /\ JsonKind(apiEvent) /\ NonBlankBody(apiEvent)) =>
        /\ apiNormalized.kind \in {"message", "error"}
        /\ apiResponse.kind = "response"
        /\ ~ObjectBody(apiEvent) => Is400(apiNormalized) /\ Is400(apiResponse)

\* the characters of a str value once trimmed are not empty
NonEmptyAfterTrim(v) ==
    \/ v.ty \in {"json", "uuid"}
    \/ v.ty = "str" /\ v.s # ""
    \/ v.ty = "text" /\ \E i \in 1..Len(v.c) : v.c[i] \notin Whitespace

\* C7 (as claimed): every message returned by validate_and_normalize has a
\* normalized_text that is non-empty after trimming whitespace, for both content
\* kinds.
C7_TextNonEmptyAfterTrim ==
    apiNormalized.kind = "message" =>
        NonEmptyAfterTrim(apiNormalized.message.d.normalized_text)

\* C5: a failed publish is never reported as success. In every invocation that
\* calls publish_to_sqs: if the queue accepted nothing, or the queue URL is not
\* configured, publish_to_sqs returned False (it returned, it did not raise); the
\* response is 202 only if it returned True, and 500 when it returned False.
C5_PublishFailureIsNotSuccess ==
    [][apiCalls' = apiCalls + 1 =>
          /\ (apiPublish'.called /\ queue' = queue) => apiPublish'.result = FALSE
          /\ (apiPublish'.called /\ ~Truthy(SQS_QUEUE_URL)) => apiPublish'.result = FALSE
          /\ Is(apiResponse', 202) => (apiPublish'.called /\ apiPublish'.result = TRUE)
          /\ (apiPublish'.called /\ apiPublish'.result = FALSE) => Is(apiResponse', 500)
      ]_vars

\* a request that validated, with no queue URL configured: publish returned
\* False and the response is 500
C5_Witness ==
    /\ apiPublish.called /\ apiPublish.result = FALSE
    /\ SQS_QUEUE_URL = EnvUnset
    /\ Is(apiResponse, 500)

\* C8: whenever the API lambda_handler returns 202, the queue accepted exactly
\* one message in this invocation, it is the message validate_and_normalize
\* returned, the response's log_id and request_id are that message's, and the
\* message attributes tenant_id and log_id equal the body's.
C8_AcceptedDescribesEnqueued ==
    [][(apiCalls' = apiCalls + 1 /\ Is(apiResponse', 202)) =>
          /\ Len(queue') = Len(queue) + 1
          /\ SubSeq(queue', 1, Len(queue)) = queue
          /\ LET m == queue'[Len(queue')]
                 body == json_loads(m.MessageBody)
             IN  /\ body.ok /\ body.val.ty = "dict"
                 /\ body.val = apiNormalized'.message
                 /\ apiResponse'.log_id = body.val.d.log_id
                 /\ apiResponse'.request_id = body.val.d.request_id
                 /\ m.MessageAttributes.tenant_id = body.val.d.tenant_id
                 /\ m.MessageAttributes.log_id = body.val.d.log_id
      ]_vars

\* a second request answered 202, after a first one was enqueued
C8_Witness ==
    /\ Is(apiResponse, 202)
    /\ Len(queue) = 2
    /\ json_loads(queue[2].MessageBody).val.d.log_id = apiResponse.log_id

\* C9: a text/plain request with a non-blank body and a non-empty tenant header
\* (whatever the case of the header's name) is normalized to a message with the
\* header's value as tenant_id, source text_upload and the body, unchanged, as
\* normalized_text; a JSON request that passes validation has source json_upload
\* and the payload's tenant_id and text.
C9_NormalizedFields ==
    /\ (Routed(apiEvent) /\ TextKind(apiEvent) /\ NonBlankBody(apiEvent)
            /\ TenantHeaderOf(apiEvent) \notin {None, Str("")}) =>
          /\ apiNormalized.kind = "message"
          /\ apiNormalized.message.d.tenant_id = TenantHeaderOf(apiEvent)
          /\ apiNormalized.message.d.source = Str("text_upload")
          /\ apiNormalized.message.d.normalized_text = BodyOf(apiEvent)
    /\ (Routed(apiEvent) /\ JsonKind(apiEvent) /\ apiNormalized.kind = "message") =>
          /\ ObjectBody(apiEvent)
          /\ apiNormalized.message.d.source = Str("json_upload")
          /\ apiNormalized.message.d.tenant_id = PayloadOf(apiEvent).d.tenant_id
          /\ apiNormalized.message.d.normalized_text = PayloadOf(apiEvent).d.text

\* a text/plain request whose tenant header is spelled X-Tenant-ID was normalized
C9_Witness ==
    /\ Routed(apiEvent) /\ TextKind(apiEvent)
    /\ "X-Tenant-ID" \in DOMAIN apiEvent.headers
    /\ apiNormalized.kind = "message"
    /\ apiNormalized.message.d.tenant_id = Str("acme")

\* C10: a JSON payload's non-empty log_id is carried by the message exactly; when
\* none is supplied (absent or empty, or a text/plain request) the log_id is a
\* fresh uuid4 value, and no two generated log_ids are equal.
C10_LogId ==
    /\ apiNormalized.kind = "message" =>
          IF JsonKind(apiEvent) /\ Supplied(PayloadOf(apiEvent), "log_id")
          THEN apiNormalized.message.d.log_id = PayloadOf(apiEvent).d.log_id
          ELSE /\ apiNormalized.message.d.log_id.ty = "uuid"
               /\ generated # <<>>
               /\ generated[Len(generated)] = apiNormalized.message.d.log_id
    /\ \A i, j \in 1..Len(generated) : i # j => generated[i] # generated[j]

\* two requests had their log_id generated
C10_Witness == Len(generated) = 2

-----------------------------------------------------------------------------
(* Properties of the worker Lambda *)

\* the decoded message of a record whose body is a JSON object
MessageOf(record) == json_loads(record.body).val

\* the messageIds of a failure list, in order
Identifiers(failures) == [i \in 1..Len(failures) |-> failures[i].itemIdentifier]

Range(f) == {f[i] : i \in DOMAIN f}

\* record i of w's batch did not end well: its body did not decode, its receive
\* count did not parse, the processing step raised or the store write failed
FailedAt(w, i) == wOutcome[w][i].stage # "ok"

\* the item the batch of w leaves under the key of its record i: the one built
\* from the last record of the batch that was stored under that key
LastStored(w, i) ==
    LET recs == Records(wEvent[w])
        same == {j \in 1..Len(recs) : /\ ~FailedAt(w, j)
                                      /\ MessageOf(recs[j]).d.tenant_id = MessageOf(recs[i]).d.tenant_id
                                      /\ MessageOf(recs[j]).d.log_id = MessageOf(recs[i]).d.log_id}
    IN  recs[CHOOSE j \in same : \A k \in same : k <= j]

\* the store holds, under the key of record i of w's batch, one item, with the
\* text and the receive count of the last record stored under that key
Persisted(w, i) ==
    LET m == MessageOf(Records(wEvent[w])[i])
        last == LastStored(w, i)
        found == {item \in store : Key(item) = <<m.d.tenant_id, m.d.log_id>>}
    IN  /\ Cardinality(found) = 1
        /\ \A item \in found : /\ item.original_text = MessageOf(last).d.normalized_text
                               /\ item.attempt = Attempt(last).val

\* C1: when the worker lambda_handler returns from a batch in which exactly one
\* record k failed and all the others succeeded, batchItemFailures is exactly the
\* messageId of k and the record of every other item is in the store, whatever
\* the position of k.
C1_PartialBatchIsolation ==
    \A w \in Workers :
        wPc[w] = "returned" =>
            LET recs == Records(wEvent[w])
            IN  \A k \in 1..Len(recs) :
                    (FailedAt(w, k) /\ \A i \in 1..Len(recs) : i # k => ~FailedAt(w, i)) =>
                        /\ wResponse[w].batchItemFailures =
                               <<[itemIdentifier |-> recs[k].messageId]>>
                        /\ \A i \in 1..Len(recs) : i # k => Persisted(w, i)

\* a batch of three returned, its first record failed, the two others are stored
\* under two keys
C1_Witness ==
    /\ wPc["w1"] = "returned"
    /\ Len(Records(wEvent["w1"])) = 3
    /\ FailedAt("w1", 1) /\ ~FailedAt("w1", 2) /\ ~FailedAt("w1", 3)
    /\ Cardinality(store) = 2

\* the body of a record does not decode to a usable message: invalid JSON, JSON
\* that is no object, or an object with a field missing
Unusable(record) ==
    LET dec == json_loads(record.body)
    IN  \/ ~dec.ok
        \/ dec.val.ty # "dict"
        \/ ~(ItemFields \subseteq DOMAIN dec.val.d)

\* C2: every record the loop has finished whose body is not a usable message, or
\* whose processing step raised, or whose store write failed, has its messageId
\* in batch_item_failures, and in the returned batchItemFailures, whatever its
\* ApproximateReceiveCount.
C2_EveryFailureReported ==
    \A w \in Workers :
        \A i \in 1..wPos[w] :
            LET record == Records(wEvent[w])[i]
            IN  (Unusable(record) \/ wOutcome[w][i].stage \in {"decode", "process", "store"}) =>
                    /\ record.messageId \in Range(Identifiers(batch_item_failures[w]))
                    /\ wPc[w] = "returned" =>
                           record.messageId \in Range(Identifiers(wResponse[w].batchItemFailures))

\* a returned batch with an undecodable third delivery, a processing failure and
\* a store failure
C2_Witness ==
    /\ wPc["w1"] = "returned"
    /\ Len(wResponse["w1"].batchItemFailures) = 3
    /\ {wOutcome["w1"][i].stage : i \in 1..3} = {"decode", "process", "store"}
    /\ \E i \in 1..3 : Records(wEvent["w1"])[i].body = InvalidJson

\* C3: after any sequence of successful writes, the store holds under every key
\* written exactly one item, which is the item of the last write under that key
\* with every field of it, and the number of stored items is the number of
\* distinct keys written.
C3_IdempotentStorage ==
    /\ \A n \in 1..Len(writes) :
           (\A later \in (n + 1)..Len(writes) : Key(writes[later]) # Key(writes[n])) =>
               {item \in store : Key(item) = Key(writes[n])} = {writes[n]}
    /\ Cardinality(store) = Cardinality({Key(writes[n]) : n \in 1..Len(writes)})

\* two writes under one key with different redacted text, and one stored item
C3_Witness ==
    /\ Len(writes) = 2
    /\ Key(writes[1]) = Key(writes[2])
    /\ writes[1].modified_data # writes[2].modified_data
    /\ store = {writes[2]}

-----------------------------------------------------------------------------
(* Properties of two workers on one table *)

\* the positions in `writes` of the items put under key k
WritesUnder(k) == {n \in 1..Len(writes) : Key(writes[n]) = k}

\* the item of the latest put under key k
LastWrite(k) == writes[CHOOSE n \in WritesUnder(k) : \A m \in WritesUnder(k) : m <= n]

\* C11: when two workers process deliveries of the same (tenant_id, log_id) in
\* any interleaving of their clock reads and puts, the store holds exactly one
\* item under that key, and it is, field for field, an item one of the workers
\* put (the one put last); the items under the other keys are those last put
\* under them.
C11_ConcurrentDuplicates ==
    \A k \in {Key(writes[n]) : n \in 1..Len(writes)} :
        LET under == {item \in store : Key(item) = k}
        IN  /\ Cardinality(under) = 1
            /\ under \subseteq {writes[n] : n \in WritesUnder(k)}
            /\ under = {LastWrite(k)}

\* both workers have put an item under one key, w2 last with the earlier clock
\* reading, and an item of another key is stored beside it
C11_Witness ==
    /\ Len(writes) = 3
    /\ Key(writes[2]) = Key(writes[3]) /\ Key(writes[1]) # Key(writes[2])
    /\ writes[2].worker_id = WorkerId(LambdaContext)
    /\ writes[3].worker_id = WorkerId(NoContext)
    /\ writes[3].processed_at.t < writes[2].processed_at.t
    /\ store = {writes[1], writes[3]}

\* two items are of one tenant and one log_id
SameTenantAndLog(a, b) == a.tenant_id = b.tenant_id /\ a.log_id = b.log_id

\* the items put by the step, in order
NewWrites == SubSeq(writes', Len(writes) + 1, Len(writes'))

\* every item stored before or after the step under another (tenant_id, log_id)
\* than the one the step wrote is stored both before and after it
C12_OtherKeysKept ==
    \A item \in store \cup store' :
        (\A n \in DOMAIN NewWrites : ~SameTenantAndLog(item, NewWrites[n])) =>
            (item \in store /\ item \in store')

\* two items written with one log_id for two tenants are both stored, apart
C12_TenantsApart ==
    \A n1, n2 \in DOMAIN writes :
        (writes[n1].log_id = writes[n2].log_id /\ writes[n1].tenant_id # writes[n2].tenant_id) =>
            \E a, b \in store : /\ a # b
                                /\ SameTenantAndLog(a, writes[n1])
                                /\ SameTenantAndLog(b, writes[n2])

\* C12: a store write for key (T1, L) never creates, changes or removes the
\* item stored under any other key, in particular under (T2, L) with the same
\* log_id and another tenant; two messages with the same log_id and different
\* tenant_id end as two separate stored items.
C12_TenantIsolation == []C12_TenantsApart /\ [][C12_OtherKeysKept]_vars

\* tenant acme's item was replaced while beta_inc's item with the same log_id
\* was stored, and both are there
C12_Witness ==
    /\ Len(writes) = 3
    /\ SameTenantAndLog(writes[1], writes[3]) /\ writes[1] # writes[3]
    /\ writes[2].log_id = writes[3].log_id /\ writes[2].tenant_id # writes[3].tenant_id
    /\ store = {writes[2], writes[3]}

-----------------------------------------------------------------------------
(* Properties of redact_phone_numbers, stated on the stored items: original_text
   is the text given to it and modified_data what it returned *)

TextOfTokens(seq) == Text(Flatten(seq))

\* C13: for every text s of the model (digits, '-', '.', space, parentheses,
\* letters), redact_phone_numbers(redact_phone_numbers(s)) equals
\* redact_phone_numbers(s).
C13_IdempotentRedaction ==
    \A item \in store :
        /\ item.modified_data = redact_phone_numbers(item.original_text)
        /\ redact_phone_numbers(item.modified_data) = item.modified_data

\* a text with two numbers, both redacted, is stored
C13_Witness ==
    \E item \in store :
        /\ item.original_text =
               TextOfTokens(<< <<"5", "5", "5", ".", "0", "1", "0", "0">>, <<" ">>,
                               <<"5", "5", "5", "-">>, <<"0", "1", "9", "9">> >>)
        /\ item.modified_data = Text(REDACTED \o <<" ">> \o REDACTED)

\* x is written like a phone number, whatever stands around it: 7 digits as
\* ddddddd or ddd-dddd, 10 digits as ddd-ddd-dddd or (ddd) ddd-dddd, with '.'
\* for '-' and, between the groups of 10 digits, a space for '-'; the space
\* after the parenthesis and the last separator may be missing
IsPhoneShape(x) ==
    LET n == Len(x)
    IN  \/ n = 7 /\ DigitsAt(x, 1, 7)
        \/ n = 8 /\ DigitsAt(x, 1, 3) /\ x[4] \in {"-", "."} /\ DigitsAt(x, 5, 4)
        \/ /\ n = 12
           /\ DigitsAt(x, 1, 3) /\ x[4] \in {"-", ".", " "}
           /\ DigitsAt(x, 5, 3) /\ x[8] \in {"-", ".", " "} /\ DigitsAt(x, 9, 4)
        \/ /\ n \in 12..14
           /\ x[1] = "(" /\ DigitsAt(x, 2, 3) /\ x[5] = ")"
           /\ LET r == IF x[6] = " " THEN SubSeq(x, 7, n) ELSE SubSeq(x, 6, n)
              IN  /\ DigitsAt(r, 1, 3)
                  /\ \/ Len(r) = 7 /\ DigitsAt(r, 4, 4)
                     \/ Len(r) = 8 /\ r[4] \in {"-", "."} /\ DigitsAt(r, 5, 4)

\* the lengths of the phone-like runs of c that start at position i
PhoneShapeLens(c, i) ==
    {n \in 7..14 : i + n - 1 <= Len(c) /\ IsPhoneShape(SubSeq(c, i, i + n - 1))}

ContainsPhoneShape(c) == \E i \in 1..Len(c) : PhoneShapeLens(c, i) # {}

\* out is s with some phone-like runs replaced by [REDACTED] and every other
\* character kept, in order (the texts of the model have no '[')
RECURSIVE Aligned(_, _)
Aligned(s, out) ==
    IF out = <<>> THEN s = <<>>
    ELSE IF Len(out) >= Len(REDACTED) /\ SubSeq(out, 1, Len(REDACTED)) = REDACTED
        THEN \E n \in PhoneShapeLens(s, 1) :
                 Aligned(SubSeq(s, n + 1, Len(s)), SubSeq(out, Len(REDACTED) + 1, Len(out)))
    ELSE s # <<>> /\ Head(s) = Head(out) /\ Aligned(Tail(s), Tail(out))

\* C14: for every text s that contains no phone-like run, redact_phone_numbers(s)
\* equals s (so an order id of 5 digits, an amount, a path are kept), and in
\* every text the characters around the redacted numbers are kept unchanged.
C14_NonInterference ==
    \A item \in store :
        /\ ~ContainsPhoneShape(item.original_text.c) => item.modified_data = item.original_text
        /\ Aligned(item.original_text.c, item.modified_data.c)

\* a text with an order id, an amount, a path and digit groups that make no
\* phone number is stored as it is
C14_Witness ==
    \E item \in store :
        /\ item.original_text =
               TextOfTokens(<< <<"#", "1", "2", "3", "4", "5", " ", "$", "9", ".", "9", "9", "/", "v", "1">>,
                               <<" ">>, <<"5", "5", "5">>, <<"a">> >>)
        /\ ~ContainsPhoneShape(item.original_text.c)
        /\ item.modified_data = item.original_text

NoDigits(x) == \A k \in DOMAIN x : x[k] \notin Digits

\* x is a 10-digit number written ddd-ddd-dddd or (ddd) ddd-dddd
TenDigitForm(x) ==
    \/ /\ Len(x) = 12
       /\ DigitsAt(x, 1, 3) /\ x[4] = "-" /\ DigitsAt(x, 5, 3) /\ x[8] = "-" /\ DigitsAt(x, 9, 4)
    \/ /\ Len(x) = 14
       /\ x[1] = "(" /\ DigitsAt(x, 2, 3) /\ x[5] = ")" /\ x[6] = " "
       /\ DigitsAt(x, 7, 3) /\ x[10] = "-" /\ DigitsAt(x, 11, 4)

\* C15: a 10-digit number written ddd-ddd-dddd or (ddd) ddd-dddd, in a text
\* with no other digit, is replaced whole by a single [REDACTED]: the result is
\* the text before it, [REDACTED], the text after it; the 7-digit rule does not
\* fire on its tail and leave its first three digits.
C15_TenDigitsReplacedWhole ==
    \A item \in store :
        LET c == item.original_text.c
        IN  \A i \in 1..Len(c), n \in {12, 14} :
                LET before == SubSeq(c, 1, i - 1)
                    after == SubSeq(c, i + n, Len(c))
                IN  (/\ i + n - 1 <= Len(c)
                     /\ TenDigitForm(SubSeq(c, i, i + n - 1))
                     /\ NoDigits(before) /\ NoDigits(after)) =>
                        item.modified_data.c = before \o REDACTED \o after

-----------------------------------------------------------------------------
(* Properties of one run of the worker lambda_handler *)

\* the record's body is a message with a tenant_id and a log_id
HasKey(record) ==
    LET dec == json_loads(record.body)
    IN  dec.ok /\ dec.val.ty = "dict" /\ {"tenant_id", "log_id"} \subseteq DOMAIN dec.val.d

\* record i of w's batch is not in the failure list w returned
Acknowledged(w, i) ==
    Records(wEvent[w])[i].messageId \notin Range(Identifiers(wResponse[w].batchItemFailures))

\* some pass of w's invocation has put an item under the (tenant_id, log_id) of
\* record i
KeyWritten(w, i) ==
    LET recs == Records(wEvent[w])
    IN  /\ HasKey(recs[i])
        /\ \E j \in 1..Len(recs) :
               /\ wOutcome[w][j].wrote
               /\ MessageOf(recs[j]).d.tenant_id = MessageOf(recs[i]).d.tenant_id
               /\ MessageOf(recs[j]).d.log_id = MessageOf(recs[i]).d.log_id

\* C16 as stated: when lambda_handler has returned, a record of the batch is
\* absent from batchItemFailures if and only if an item for its (tenant_id,
\* log_id) was written to the store during the invocation.
C16_AcknowledgedIffKeyWritten ==
    \A w \in Workers :
        wPc[w] = "returned" =>
            \A i \in 1..Len(Records(wEvent[w])) : Acknowledged(w, i) <=> KeyWritten(w, i)

\* w has just finished the pass over a record
PassDone(w) == wPos'[w] = wPos[w] + 1

\* the pass w has just finished appended the record's messageId to the list
PassReported(w) == Len(batch_item_failures'[w]) = Len(batch_item_failures[w]) + 1

\* a pass reports its record unless it has put the record's item, which is then
\* in the store under the record's key; a pass that did not put, in particular
\* one that failed at decoding or in the processing step, leaves the store as
\* it was
C16_PassWritesOrReports ==
    \A w \in Workers :
        PassDone(w) =>
            LET record == Records(wEvent[w])[wPos'[w]]
                outcome == wOutcome'[w][wPos'[w]]
            IN  /\ PassReported(w) <=> ~outcome.wrote
                /\ outcome.wrote <=> outcome.stage = "ok"
                /\ ~outcome.wrote => store' = store /\ writes' = writes
                /\ outcome.wrote =>
                       /\ Len(writes') = Len(writes) + 1
                       /\ writes'[Len(writes')] \in store'
                       /\ HasKey(record)
                       /\ Key(writes'[Len(writes')]) =
                              <<MessageOf(record).d.tenant_id, MessageOf(record).d.log_id>>

\* when lambda_handler has returned, a record is absent from the failure list
\* exactly if its own pass put its item
C16_AcknowledgedIffWrote ==
    \A w \in Workers :
        wPc[w] = "returned" =>
            \A i \in 1..Len(Records(wEvent[w])) : Acknowledged(w, i) <=> wOutcome[w][i].wrote

\* C16 (amended): in every run of the worker lambda_handler a record of the
\* batch is absent from the returned batchItemFailures if and only if the pass
\* over that record wrote its item to the store; a record that fails at
\* decoding, in the processing step or at the write leaves the store unchanged.
C16_AcknowledgedIffPersisted == []C16_AcknowledgedIffWrote /\ [][C16_PassWritesOrReports]_vars

\* a returned batch of two deliveries under one key: the first was reported,
\* the second stored
C16_Witness ==
    /\ wPc["w1"] = "returned"
    /\ Len(Records(wEvent["w1"])) = 2
    /\ KeyWritten("w1", 1) /\ ~Acknowledged("w1", 1) /\ ~wOutcome["w1"][1].wrote
    /\ Acknowledged("w1", 2) /\ wOutcome["w1"][2].wrote

\* the messageIds of w's batch, in order
BatchIds(w) == [i \in 1..Len(Records(wEvent[w])) |-> Records(wEvent[w])[i].messageId]

\* the messageIds of the records of w's batch that failed, in batch order
RECURSIVE FailedIds(_, _)
FailedIds(w, n) ==
    IF n = 0 THEN <<>>
    ELSE IF FailedAt(w, n) THEN Append(FailedIds(w, n - 1), BatchIds(w)[n])
    ELSE FailedIds(w, n - 1)

\* the loop has dealt with the first wPos records, each once; it returns only
\* after the last record, and the list it returns holds the messageIds of the
\* failed records, each once, in batch order
C17_EveryRecordAttempted ==
    \A w \in Workers :
        /\ Len(wOutcome[w]) = wPos[w] /\ wPos[w] <= Len(Records(wEvent[w]))
        /\ Identifiers(batch_item_failures[w]) = FailedIds(w, wPos[w])
        /\ wPc[w] = "returned" =>
               /\ wPos[w] = Len(Records(wEvent[w]))
               /\ wResponse[w].kind = "response"
               /\ LET ids == Identifiers(wResponse[w].batchItemFailures)
                  IN  /\ ids = FailedIds(w, Len(Records(wEvent[w])))
                      /\ Range(ids) \subseteq Range(BatchIds(w))
                      /\ \A a, b \in 1..Len(ids) : ids[a] = ids[b] => a = b

\* a pass deals with the next record of the batch and with no other: the
\* outcome it adds and the messageId it reports are that record's, and the batch
\* and the outcomes of the records before it stay as they are
C17_InBatchOrder ==
    \A w \in Workers :
        PassDone(w) =>
            /\ wEvent'[w] = wEvent[w]
            /\ SubSeq(wOutcome'[w], 1, wPos[w]) = wOutcome[w]
            /\ Len(wOutcome'[w]) = wPos[w] + 1
            /\ PassReported(w) =>
                   batch_item_failures'[w] =
                       Append(batch_item_failures[w],
                              [itemIdentifier |-> Records(wEvent[w])[wPos[w] + 1].messageId])

\* an invocation that has started returns
C17_Returns == \A w \in Workers : wPc[w] = "running" ~> wPc[w] = "returned"

\* C17: whatever records of the batch fail (the first, several, all), the
\* worker lambda_handler attempts every record exactly once, in batch order,
\* and returns a report; the returned failure list holds only messageIds of the
\* batch, each at most once.
C17_NoFailureAbortsBatch ==
    /\ []C17_EveryRecordAttempted
    /\ [][C17_InBatchOrder]_vars
    /\ C17_Returns

\* a returned batch of three whose first and last records failed and whose
\* second is stored
C17_Witness ==
    /\ wPc["w1"] = "returned"
    /\ Len(Records(wEvent["w1"])) = 3
    /\ FailedAt("w1", 1) /\ ~FailedAt("w1", 2) /\ FailedAt("w1", 3)
    /\ Identifiers(wResponse["w1"].batchItemFailures) = <<BatchIds("w1")[1], BatchIds("w1")[3]>>
    /\ Cardinality(store) = 1

\* the pass w has just finished put its record's item
PassWrote(w) == PassDone(w) /\ wOutcome'[w][wPos[w] + 1].wrote

\* after a pass that put its record's item, the one item stored under the
\* record's (tenant_id, log_id) has the record's receive count as attempt and
\* the record's text and its redaction as content, whatever was stored under
\* the key before
C18_StoresTheDelivery ==
    \A w \in Workers :
        PassWrote(w) =>
            LET record == Records(wEvent[w])[wPos[w] + 1]
                message == MessageOf(record).d
                under == {i \in store' : /\ i.tenant_id = message.tenant_id
                                         /\ i.log_id = message.log_id}
            IN  /\ Cardinality(under) = 1
                /\ \A i \in under :
                       /\ i.attempt = Attempt(record).val
                       /\ i.original_text = message.normalized_text
                       /\ i.modified_data = redact_phone_numbers(message.normalized_text)
                       /\ i = writes'[Len(writes')]

\* C18: the store write ignores attempt numbers: after a delivery with receive
\* count a for key (T, L) is processed and stored, the item stored under (T, L)
\* has attempt a and that delivery's content, even when the item stored under
\* (T, L) before had a higher attempt; a stale delivery processed after a
\* fresher one overwrites it.
C18_AttemptsIgnored == [][C18_StoresTheDelivery]_vars

\* the second delivery of a key was stored, and then the first delivery, with
\* another text, which is what the store holds
C18_Witness ==
    /\ Len(writes) = 2
    /\ Key(writes[1]) = Key(writes[2])
    /\ writes[1].attempt = 2 /\ writes[2].attempt = 1
    /\ writes[1].original_text # writes[2].original_text
    /\ store = {writes[2]}

\* a pass begun when the batch's deadline is reached or past reports its record
\* and puts nothing, and it keeps the outcomes and the reports of the records
\* processed before it
C19_PassAfterDeadline ==
    \A w \in Workers :
        PassDone(w) =>
            /\ now >= BatchDeadline => (PassReported(w) /\ store' = store /\ writes' = writes)
            /\ SubSeq(wOutcome'[w], 1, wPos[w]) = wOutcome[w]
            /\ SubSeq(batch_item_failures'[w], 1, Len(batch_item_failures[w]))
                   = batch_item_failures[w]

\* C19: when the batch's deadline is exceeded while the worker lambda_handler
\* is processing the batch, every record not yet processed is left
\* un-acknowledged (reported as failed) and nothing is written to the store for
\* it, and the outcome of the records already processed is kept.
C19_DeadlineHandling == [][C19_PassAfterDeadline]_vars

-----------------------------------------------------------------------------
(* The queue and its event source mapping, which redelivers what a batch     *)
(* reports in batchItemFailures                                              *)

\* the bodies of the messages of the queue: what the API publishes, for two
\* tenants, and a body that is no JSON
TransportBodies == {AcmeHi, BetaPhone, InvalidJson}

\* str(n) for a count below 10
DigitOf(n) == CHOOSE ch \in Digits : DigitValue(ch) = n

\* the indices of the messages that can be received
Visible == {i \in DOMAIN sqs : sqs[i].vis = "visible"}

\* the indices of S in queue order
Sorted(S) ==
    CHOOSE q \in [1..Cardinality(S) -> S] : \A a, b \in 1..Cardinality(S) : a < b => q[a] < q[b]

\* the record of message i at its next delivery: the messageId stays, the
\* receipt handle and ApproximateReceiveCount follow the receive count, which
\* the model stops counting at MaxReceives
Receives(i) == IF sqs[i].receives < MaxReceives THEN sqs[i].receives + 1 ELSE MaxReceives

SqsRecord(i) ==
    [messageId     |-> MessageId(i),
     receiptHandle |-> [ty |-> "rh", n |-> Receives(i)],
     body          |-> sqs[i].body,
     attributes    |-> [ApproximateReceiveCount |-> Text(<<DigitOf(Receives(i))>>)]]

\* the queue accepts a message
Accept ==
    /\ Len(sqs) < MaxMessages
    /\ \E body \in TransportBodies :
          sqs' = Append(sqs, [body |-> body, receives |-> 0, vis |-> "visible"])
    /\ UNCHANGED <<apiVars, workerVars, now>>

\* the event source mapping invokes worker w with the visible messages S
Receive(w, S) ==
    /\ S # {} /\ S \subseteq Visible /\ Cardinality(S) <= MaxBatch
    /\ WorkerStart(w, [Records |-> [k \in 1..Cardinality(S) |-> SqsRecord(Sorted(S)[k])]])
    /\ sqs' = [i \in DOMAIN sqs |->
                  IF i \in S THEN [sqs[i] EXCEPT !.receives = Receives(i), !.vis = "inflight"]
                  ELSE sqs[i]]
    /\ UNCHANGED <<apiVars, now, delivered>>

\* a delivery of message i, alone or with others
ReceiveMessage(w, i) == \E S \in SUBSET Visible : i \in S /\ Receive(w, S)

\* lambda_handler returns and the event source mapping acts on the response:
\* the messages listed in batchItemFailures become visible again, the others of
\* the batch are deleted
TransportReturn(w) ==
    /\ WorkerReturn(w)
    /\ sqs' = [i \in DOMAIN sqs |->
                  IF MessageId(i) \notin Range(BatchIds(w)) THEN sqs[i]
                  ELSE IF MessageId(i) \in Range(Identifiers(batch_item_failures[w]))
                      THEN [sqs[i] EXCEPT !.vis = "visible"]
                  ELSE [sqs[i] EXCEPT !.vis = "deleted"]]
    /\ UNCHANGED <<apiVars, now>>

\* one worker container with a table configured
SpecTransportInit ==
    /\ ApiInit /\ ApiIdle /\ WorkerInit /\ NoTransport /\ now = 0
    /\ DYNAMODB_TABLE_NAME = Str("logs")
    /\ wContext = [w \in Workers |-> IF w = "w1" THEN LambdaContext ELSE NoContext]

SpecTransportNext ==
    \/ Accept
    \/ \E i \in 1..MaxMessages : ReceiveMessage("w1", i)
    \/ Process("w1")
    \/ TransportReturn("w1")

\* The queue, one worker container and the table: the worker is invoked with
\* batches of the queue's messages, and what it reports is delivered again
SpecTransport == SpecTransportInit /\ [][SpecTransportNext]_vars

\* a pass in which the put of the record's item fails
StoreFault(w) == PassDone(w) /\ wOutcome'[w][wPos[w] + 1].stage = "store"

\* the failures of the store are transient: from some point on the put succeeds
Transient == <>[][\A w \in Workers : ~StoreFault(w)]_vars

\* fair scheduling: a message that is visible again and again is delivered, a
\* started invocation runs to its end and its response reaches the queue
SpecTransportFair ==
    /\ SpecTransport
    /\ \A i \in 1..MaxMessages : SF_vars(ReceiveMessage("w1", i))
    /\ FairProcess("w1")
    /\ WF_vars(TransportReturn("w1"))
    /\ Transient

\* message i is in the queue and its body decodes
Decodable(i) == i \in DOMAIN sqs /\ json_loads(sqs[i].body).ok

\* message i is in the queue and its body does not decode
Undecodable(i) == i \in DOMAIN sqs /\ ~json_loads(sqs[i].body).ok

\* an item is stored under the (tenant_id, log_id) of message i
KeyStored(i) ==
    /\ Decodable(i)
    /\ \E item \in store : /\ item.tenant_id = json_loads(sqs[i].body).val.d.tenant_id
                            /\ item.log_id = json_loads(sqs[i].body).val.d.log_id

\* a worker has returned from a batch with message i in it
Returned(w, i) == wPc[w] = "returned" /\ MessageId(i) \in Range(BatchIds(w))

\* message i is in the failure list w returned
Reported(w, i) ==
    MessageId(i) \in Range(Identifiers(wResponse[w].batchItemFailures))

\* message i waits in the queue or is with a worker
Pending(i) == i \in DOMAIN sqs /\ sqs[i].vis # "deleted"

\* every decodable message of the queue is in time stored under its key and
\* left out of the failure report of a batch it was in
C20_Persists ==
    \A i \in 1..MaxMessages :
        (Decodable(i) /\ Pending(i)) ~>
            (KeyStored(i) /\ \E w \in Workers : Returned(w, i) /\ ~Reported(w, i))

\* a batch with an undecodable message reports it, and the message stays in
\* the queue with nothing stored for it
C20_UndecodableReported ==
    /\ \A i \in DOMAIN sqs :
          Undecodable(i) => /\ sqs[i].vis # "deleted"
                            /\ \A w \in Workers : Returned(w, i) => Reported(w, i)
    /\ (\A i \in DOMAIN sqs : Undecodable(i)) => store = {}

\* w returns a failure list with message i in it
ReportStep(w, i) ==
    /\ wPc[w] = "running" /\ wPc'[w] = "returned"
    /\ MessageId(i) \in Range(Identifiers(wResponse'[w].batchItemFailures))

\* an undecodable message is reported again and again
C20_ReportedForever ==
    \A i \in 1..MaxMessages : []~Undecodable(i) \/ []<><<ReportStep("w1", i)>>_vars

\* C20: for every message the queue accepted, when the transport redelivers
\* what batchItemFailures reports and the failures of the store are transient,
\* under fair scheduling an item under the message's (tenant_id, log_id) is
\* eventually in the store and the message is eventually left out of a failure
\* report; a message whose body never decodes is reported failed at every
\* delivery, forever.
C20_EventualPersistence ==
    /\ C20_Persists
    /\ []C20_UndecodableReported
    /\ C20_ReportedForever

\* a message stored at its second delivery, after a store fault at the first,
\* beside an undecodable message that is back in the queue after two deliveries
C20_Witness ==
    /\ Len(sqs) = 2
    /\ Decodable(1) /\ sqs[1].vis = "deleted" /\ sqs[1].receives = 2 /\ KeyStored(1)
    /\ Undecodable(2) /\ sqs[2].vis = "visible" /\ sqs[2].receives = 2
    /\ Returned("w1", 2) /\ Reported("w1", 2)

\* the last request: send_message was called at most once, and only from a
\* publish_to_sqs that was called for a POST /ingest whose validation returned
\* a message; a publish that returned False made at most that one call
C21_SendsOfRequest ==
    /\ apiSends \in {0, 1}
    /\ apiSends = 1 =>
           /\ apiPublish.called
           /\ apiEvent.requestContext.http.method = "POST" /\ apiEvent.rawPath = "/ingest"
           /\ apiNormalized.kind = "message"
    /\ apiPublish.called =>
           /\ apiNormalized.kind = "message"
           /\ apiPublish.result = TRUE => apiSends = 1

\* a request adds to the queue at most the one message of its one send, and
\* none when publish_to_sqs returned False
C21_QueueOfRequest ==
    apiCalls' = apiCalls + 1 =>
        /\ Len(queue') = Len(queue) + (IF apiPublish'.called /\ apiPublish'.result THEN 1 ELSE 0)
        /\ Len(queue') - Len(queue) <= apiSends'
        /\ SubSeq(queue', 1, Len(queue)) = queue

\* C21: for every request the API lambda_handler calls the queue send at most
\* once, and only when the request is POST /ingest and validation returned a
\* message; publish_to_sqs makes one send attempt and does not retry after a
\* failure.
C21_AtMostOneSend == []C21_SendsOfRequest /\ [][C21_QueueOfRequest]_vars

\* a request whose one send failed, after a request that was accepted
C21_Witness ==
    /\ apiCalls = 2 /\ Len(queue) = 1
    /\ apiPublish.called /\ apiPublish.result = FALSE /\ apiSends = 1
    /\ Is(apiResponse, 500)

\* the pass w has just finished did not report its record
PassSucceeded(w) == PassDone(w) /\ ~PassReported(w)

\* the receive count a record carries, 1 when it carries none
ReceiveCountOf(record) ==
    IF "attributes" \in DOMAIN record /\ "ApproximateReceiveCount" \in DOMAIN record.attributes
    THEN DecimalValue(record.attributes.ApproximateReceiveCount.c)
    ELSE 1

\* a pass that succeeded has put one item, which is in the store with the
\* queued message's tenant_id, log_id, source, received_at and request_id, the
\* redaction of its normalized_text, the record's receive count and the
\* worker's identity
C22_StoredContent ==
    \A w \in Workers :
        PassSucceeded(w) =>
            LET record == Records(wEvent[w])[wPos[w] + 1]
                message == json_loads(record.body).val.d
                item == writes'[Len(writes')]
            IN  /\ Len(writes') = Len(writes) + 1
                /\ item \in store'
                /\ item.tenant_id = message.tenant_id
                /\ item.log_id = message.log_id
                /\ item.source = message.source
                /\ item.received_at = message.received_at
                /\ item.request_id = message.request_id
                /\ item.modified_data = redact_phone_numbers(message.normalized_text)
                /\ item.attempt = ReceiveCountOf(record)
                /\ item.worker_id = (IF wContext[w] = None THEN Str("local-worker")
                                     ELSE wContext[w].function_name)

\* C22: for every successfully processed delivery, the stored record has the
\* queued message's tenant_id, log_id, source, received_at and request_id,
\* modified_data equal to redact_phone_numbers of the message's
\* normalized_text, attempt equal to the delivery's ApproximateReceiveCount (1
\* when the attribute is absent), and the invoking worker's identity as
\* worker_id.
C22_PersistedRecord == [][C22_StoredContent]_vars

\* a second delivery stored by the Lambda function with its text redacted,
\* and a delivery without a receive count stored as attempt 1
C22_Witness ==
    /\ wPc["w1"] = "returned"
    /\ Len(writes) = 2
    /\ \E item \in store : /\ item.attempt = 2
                            /\ item.worker_id = Str("log-worker")
                            /\ item.modified_data # item.original_text
    /\ \E item \in store : item.attempt = 1 /\ item.tenant_id = Str("beta_inc")

====
